---- MODULE Spec2Model ----
(***************************************************************************)
(* Weekly timetable engine of An0jin/classRoom.                            *)
(*                                                                         *)
(*   src/main.py       Upload: section letters and the semester adjustment *)
(*   src/timetable.py  demonstrate_solution: Course_ID, solve_optimal (the *)
(*                     0/1 programme handed to CBC), the unassigned        *)
(*                     diagnosis and generate_html_timetable               *)
(*                                                                         *)
(* Column names: main.py reads the Korean spreadsheet headers, timetable.py*)
(* the database ones.  The model uses the database names throughout:       *)
(*   dept = 개설학과, subject = 교과목명, grade = 개설학년, class = 반,    *)
(*   time = 교과목학점 (weekly hours), professor, enrollment.               *)
(*                                                                         *)
(* The solver is a black box: any assignment of the binary variables that  *)
(* satisfies the constraints may come back with status Feasible, any one   *)
(* that also maximises the objective with status Optimal, and the solver   *)
(* may end with another status and no solution.                            *)
(*                                                                         *)
(* Two calls into libraries end demonstrate_solution with an exception:    *)
(*   - PuLP's LpProblem rejects a constraint whose name is already in use  *)
(*     (PulpError "overlapping constraint names"), which is what the       *)
(*     second f"Max_One_Assignment_for_Course_{c}" is when COURSES holds a *)
(*     Course_ID twice;                                                    *)
(*   - pandas' sort_values raises KeyError for a column the frame does not *)
(*     have, and pd.DataFrame([]) has no column at all.                    *)
(***************************************************************************)
EXTENDS Integers, Sequences, FiniteSets, TLC

VARIABLES
    pc,                 \* "start" -> "uploaded" -> "done"
    semester,           \* Upload's form field
    subject_in,         \* the course rows as read from the sheet
    courses_df,         \* the course rows after Upload (class added, time adjusted)
    classRoom_df,       \* the room rows
    raised,             \* "none", or the exception demonstrate_solution ended with
    status,             \* LpStatus[prob.status] ("none" before the solve)
    schedule_df,        \* the rows solve_optimal returned
    unassigned_courses_df,  \* the rows demonstrate_solution found unassigned
    report              \* what generate_html_timetable put on the page

vars == <<pc, semester, subject_in, courses_df, classRoom_df, raised, status,
          schedule_df, unassigned_courses_df, report>>

----------------------------------------------------------------------------
(* Bounds of the model *)

MaxCourses == 2         \* course rows in the sheet
MaxRooms   == 2         \* room rows in the sheet
NumDays    == 2         \* how many of the five weekdays of DAYS the model keeps

(* Input domains.  Labels are only ever compared for equality. *)
Depts       == {"D1", "D2"}
Subjects    == {"s1", "s2"}
Grades      == {2, 3}
ProfessorsIn == {"p1", "p2"}
Times       == {4, 9}
Enrollments == {50}
Semesters   == {1, 2}

(* Room sheet: room i has number 100 + i; with a Capacity column the odd  *)
(* rooms seat 45 and the even rooms 60.                                    *)
RoomNumber(i)   == 100 + i
RoomCapacity(i) == IF i % 2 = 1 THEN 45 ELSE 60

----------------------------------------------------------------------------
(* Generic helpers over row sequences (data frames) *)

Range(s) == {s[i] : i \in DOMAIN s}

HasColumn(df, col) == \A i \in DOMAIN df : col \in DOMAIN df[i]

----------------------------------------------------------------------------
(* src/main.py, Upload *)

Letters == <<"A", "B", "C", "D", "E", "F", "G", "H", "I", "J", "K", "L", "M",
             "N", "O", "P", "Q", "R", "S", "T", "U", "V", "W", "X", "Y", "Z">>

(* chr(ord('A') + x) *)
SectionLetter(x) == Letters[x + 1]

(* groupby(['개설학과', '교과목명', '개설학년']).cumcount(): how many earlier *)
(* rows fall in the same (dept, subject, grade) bucket as row i.            *)
cumcount(df, i) ==
    Cardinality({j \in 1..(i - 1) : /\ df[j].dept = df[i].dept
                                    /\ df[j].subject = df[i].subject
                                    /\ df[j].grade = df[i].grade})

(* subject_df['반'] = ...apply(lambda x : chr(ord('A') + x)) *)
AddSection(df) ==
    [i \in DOMAIN df |-> df[i] @@ [class |-> SectionLetter(cumcount(df, i))]]

(* Variant: the adjustment without the grade filter *)
SemesterAdjust_AllGrades(df, sem) ==
    IF sem = 2
    THEN [i \in DOMAIN df |-> [df[i] EXCEPT !.time = @ * 2]]
    ELSE df

(* if semester==2: subject_df.loc[subject_df['개설학년']==3,'교과목학점']*=2 *)
SemesterAdjust(df, sem) ==
    IF sem = 2
    THEN [i \in DOMAIN df |->
            IF df[i].grade = 3 THEN [df[i] EXCEPT !.time = @ * 2] ELSE df[i]]
    ELSE df

Upload ==
    /\ pc = "start"
    /\ courses_df' = SemesterAdjust(AddSection(subject_in), semester)
    /\ pc' = "uploaded"
    /\ UNCHANGED <<semester, subject_in, classRoom_df, raised, status,
                   schedule_df, unassigned_courses_df, report>>

----------------------------------------------------------------------------
(* src/timetable.py, solve_optimal: data preparation *)

(* DAYS = ['월', '화', '수', '목', '금'] (Monday to Friday).  No constraint *)
(* relates two days, and the model keeps the first NumDays of them.        *)
WEEK == <<"Mon", "Tue", "Wed", "Thu", "Fri">>
DAYS == {WEEK[i] : i \in 1..NumDays}

T_MAX == 9
TIME_SLOTS == 1..T_MAX

capacities == <<45, 45, 45, 45, 60, 60>>

(* if 'Capacity' not in classRoom_df.columns: ...; Room_ID = number as str *)
PrepareRooms(rooms) ==
    [i \in DOMAIN rooms |->
        (IF HasColumn(rooms, "Capacity")
         THEN rooms[i]
         ELSE rooms[i] @@
              [Capacity |-> IF Len(rooms) = Len(capacities) THEN capacities[i] ELSE 50])
        @@ [Room_ID |-> ToString(rooms[i].number)]]

(* courses_df['Course_ID'] = courses_df['subject'] + '_' + courses_df['class'] *)
WithCourseID(df) ==
    [i \in DOMAIN df |-> df[i] @@ [Course_ID |-> df[i].subject \o "_" \o df[i].class]]

COURSES(cdf)    == [i \in DOMAIN cdf |-> cdf[i].Course_ID]
CLASSROOMS(rdf) == [i \in DOMAIN rdf |-> rdf[i].Room_ID]
PROFESSORS(cdf) == {cdf[i].professor : i \in DOMAIN cdf}

(* df.set_index(key)[col].to_dict().get(k, default): the last row wins *)
DictGet(df, key, col, k, default) ==
    LET hits == {i \in DOMAIN df : df[i][key] = k}
    IN  IF hits = {} THEN default
        ELSE df[CHOOSE i \in hits : \A j \in hits : j <= i][col]

course_duration(cdf, c)  == DictGet(cdf, "Course_ID", "time", c, 0)
course_professor(cdf, c) == DictGet(cdf, "Course_ID", "professor", c, "None")
Infinity == 1000000
room_capacity(rdf, r)    == DictGet(rdf, "Room_ID", "Capacity", r, Infinity)
course_enrollment(cdf, c) ==
    IF HasColumn(cdf, "enrollment")
    THEN DictGet(cdf, "Course_ID", "enrollment", c, 0)
    ELSE 30

----------------------------------------------------------------------------
(* solve_optimal: the 0/1 programme.  An assignment is the set of the      *)
(* variables X[c, r, d, t] whose value is 1.                               *)

(* Variant: the end-of-day filter one slot too generous *)
X_EndOffByOne(cdf, rdf) ==
    {x \in [c : Range(COURSES(cdf)), r : Range(CLASSROOMS(rdf)),
            d : DAYS, t : TIME_SLOTS] :
        x.t + course_duration(cdf, x.c) - 1 <= T_MAX + 1}

(* Variant: the last start is one slot too early *)
X_EndBeforeLastSlot(cdf, rdf) ==
    {x \in [c : Range(COURSES(cdf)), r : Range(CLASSROOMS(rdf)),
            d : DAYS, t : TIME_SLOTS] :
        x.t + course_duration(cdf, x.c) <= T_MAX}

(* The variables that exist: starts that end by T_MAX *)
X(cdf, rdf) ==
    {x \in [c : Range(COURSES(cdf)), r : Range(CLASSROOMS(rdf)),
            d : DAYS, t : TIME_SLOTS] :
        x.t + course_duration(cdf, x.c) - 1 <= T_MAX}

(* Objective: lpSum of all X *)
Objective(S) == Cardinality(S)

(* Variant: the bound of 3.1 written as 2 *)
Max_Two_Assignments(cdf, S) ==
    \A c \in Range(COURSES(cdf)) : Cardinality({x \in S : x.c = c}) <= 2

(* 3.1  each course at most once in the week *)
Max_One_Assignment(cdf, S) ==
    \A c \in Range(COURSES(cdf)) : Cardinality({x \in S : x.c = c}) <= 1

(* Variant: the comparison of 3.2 reversed *)
Capacity_Check_Reversed(cdf, rdf, S) ==
    \A c \in Range(COURSES(cdf)), r \in Range(CLASSROOMS(rdf)) :
        course_enrollment(cdf, c) < room_capacity(rdf, r)
            => \A x \in S : ~(x.c = c /\ x.r = r)

(* 3.2  X = 0 where the enrollment exceeds the room's capacity *)
Capacity_Check(cdf, rdf, S) ==
    \A c \in Range(COURSES(cdf)), r \in Range(CLASSROOMS(rdf)) :
        course_enrollment(cdf, c) > room_capacity(rdf, r)
            => \A x \in S : ~(x.c = c /\ x.r = r)

(* does the block that starts at x cover slot k *)
Covers(cdf, x, k) == x.t <= k /\ k <= x.t + course_duration(cdf, x.c) - 1

(* Variant: 3.3 counting only the courses that start in slot k *)
Room_Conflict_Check_StartOnly(cdf, rdf, S) ==
    \A r \in Range(CLASSROOMS(rdf)), d \in DAYS, k \in TIME_SLOTS :
        Cardinality({x \in S : x.r = r /\ x.d = d /\ x.t = k}) <= 1

(* 3.3  a room holds at most one course in any slot of any day *)
Room_Conflict_Check(cdf, rdf, S) ==
    \A r \in Range(CLASSROOMS(rdf)), d \in DAYS, k \in TIME_SLOTS :
        Cardinality({x \in S : x.r = r /\ x.d = d /\ Covers(cdf, x, k)}) <= 1

(* Variant: 3.4 summed per room, as 3.3 is *)
Professor_Conflict_Check_PerRoom(cdf, S) ==
    \A p \in PROFESSORS(cdf), r \in {x.r : x \in S}, d \in DAYS, k \in TIME_SLOTS :
        Cardinality({x \in S : /\ x.d = d
                               /\ x.r = r
                               /\ course_professor(cdf, x.c) = p
                               /\ Covers(cdf, x, k)}) <= 1

(* 3.4  a professor teaches at most one course in any slot of any day *)
Professor_Conflict_Check(cdf, S) ==
    \A p \in PROFESSORS(cdf), d \in DAYS, k \in TIME_SLOTS :
        Cardinality({x \in S : /\ x.d = d
                               /\ course_professor(cdf, x.c) = p
                               /\ Covers(cdf, x, k)}) <= 1

Constraints(cdf, rdf, S) ==
    /\ Max_One_Assignment(cdf, S)
    /\ Capacity_Check(cdf, rdf, S)
    /\ Room_Conflict_Check(cdf, rdf, S)
    /\ Professor_Conflict_Check(cdf, S)

(* Every constraint is an upper bound on a sum of variables, so a subset   *)
(* of a satisfying assignment satisfies them too: the satisfying           *)
(* assignments are exactly those reached from the empty one by setting one *)
(* more variable to 1 without breaking a constraint.                       *)
RECURSIVE Grow(_, _, _, _, _)
Grow(cdf, rdf, keys, level, acc) ==
    IF level = {} THEN acc
    ELSE LET next == UNION {{S \cup {x} : x \in {y \in keys \ S :
                                                  Constraints(cdf, rdf, S \cup {y})}} :
                            S \in level}
         IN  Grow(cdf, rdf, keys, next, acc \cup next)

FeasibleAssignments(cdf, rdf) == Grow(cdf, rdf, X(cdf, rdf), {{}}, {{}})

(* The assignments among F of the greatest objective value *)
OptimalAmong(F) ==
    LET best == CHOOSE n \in {Objective(S) : S \in F} :
                    \A S \in F : Objective(S) <= n
    IN  {S \in F : Objective(S) = best}

(* prob.solve(PULP_CBC_CMD(msg=0)): the status the solver reports and the  *)
(* variable values that come with it.                                      *)
SolverResults(cdf, rdf) ==
    LET F == FeasibleAssignments(cdf, rdf)
    IN  {[status |-> "Feasible", values |-> S] : S \in F}
        \cup {[status |-> "Optimal", values |-> S] : S \in OptimalAmong(F)}

(* The statuses of a solve that produced no solution *)
FailStatuses == {"Infeasible", "Not Solved"}

(* prob += ..., f"Max_One_Assignment_for_Course_{c}": PuLP refuses a second *)
(* constraint of the same name, which happens when COURSES repeats an id.   *)
OverlappingConstraintNames(cdf) ==
    \E i, j \in DOMAIN cdf : i < j /\ cdf[i].Course_ID = cdf[j].Course_ID

(* The rows built from the variables at 1.  original_row is the first row  *)
(* of courses_df with the Course_ID.                                       *)
original_row(cdf, c) ==
    cdf[CHOOSE i \in DOMAIN cdf :
            /\ cdf[i].Course_ID = c
            /\ \A j \in DOMAIN cdf : cdf[j].Course_ID = c => i <= j]

assigned_courses(cdf, S) ==
    {LET row == original_row(cdf, x.c)
     IN  [Day |-> x.d, subject |-> row.subject, class |-> row.class,
          time |-> row.time, professor |-> row.professor,
          Classroom_ID |-> x.r, Start_Time |-> x.t,
          End_Time |-> x.t + row.time - 1, Course_ID |-> x.c] : x \in S}

----------------------------------------------------------------------------
(* src/timetable.py, generate_html_timetable *)

(* pd.merge(schedule_df, courses_info, on='Course_ID', how='left') with    *)
(* courses_info = courses_df[...].drop_duplicates(subset=['Course_ID'])    *)
MergeCourseInfo(schedule, cdf) ==
    {row @@ [dept  |-> original_row(cdf, row.Course_ID).dept,
             grade |-> original_row(cdf, row.Course_ID).grade] : row \in schedule}

(* dept + ' (' + grade + '학년) ' + class + '반' *)
Group_ID(row) ==
    row.dept \o " (" \o ToString(row.grade) \o "hagnyeon) " \o row.class \o "ban"

(* unassigned_courses_df.groupby('grade')['subject'].apply(list).to_dict() *)
unassigned_by_grade(unassigned) ==
    [g \in {unassigned[i].grade : i \in DOMAIN unassigned} |->
        LET InGrade(row) == row.grade = g
            rows == SelectSeq(unassigned, InGrade)
        IN  [i \in DOMAIN rows |-> rows[i].subject]]

(* assignment_df.sort_values(by=['Classroom_ID', 'Day', 'Start_Time']):    *)
(* the rooms' ids compare as strings, which for numbers of one length is   *)
(* the order of the numbers; the days compare as strings too, and          *)
(* '금' < '목' < '수' < '월' < '화'.                                       *)
DaysSorted == <<"Fri", "Thu", "Wed", "Mon", "Tue">>
DayRank(d) == CHOOSE i \in DOMAIN DaysSorted : DaysSorted[i] = d
RoomRank(rdf, r) == rdf[CHOOSE i \in DOMAIN rdf : rdf[i].Room_ID = r].number

RowNotAfter(rdf, p, q) ==
    \/ RoomRank(rdf, p.Classroom_ID) < RoomRank(rdf, q.Classroom_ID)
    \/ /\ p.Classroom_ID = q.Classroom_ID
       /\ \/ DayRank(p.Day) < DayRank(q.Day)
          \/ p.Day = q.Day /\ p.Start_Time <= q.Start_Time

RECURSIVE sort_values(_, _)
sort_values(rows, rdf) ==
    IF rows = {} THEN <<>>
    ELSE LET first == CHOOSE p \in rows : \A q \in rows : RowNotAfter(rdf, p, q)
         IN  <<first>> \o sort_values(rows \ {first}, rdf)

(* The two kinds of entry of timetable_data[group][day]: the dictionary of *)
(* a course at its first hour, and the string 'occupied' at its next hours *)
occupied == [marker |-> "occupied"]
StartCell(row) ==
    [name |-> row.subject, division |-> row.class, professor |-> row.professor,
     room_id |-> row.Classroom_ID, duration |-> row.time, end |-> row.End_Time]

(* timetable_data[group_id][day][start] = {...}, then                      *)
(* for t in range(start + 1, start + duration): ... = 'occupied'           *)
WriteRow(slots, row) ==
    [t \in (row.Start_Time + 1)..(row.Start_Time + row.time - 1) |-> occupied]
        @@ (row.Start_Time :> StartCell(row)) @@ slots

(* for _, row in group_df.iterrows(): the rows of the group in the order   *)
(* of schedule_df, each written over what the earlier ones left            *)
RECURSIVE group_timetable(_, _, _)
group_timetable(rows, group, day) ==
    IF rows = <<>> THEN <<>>
    ELSE LET row    == rows[Len(rows)]
             before == group_timetable(SubSeq(rows, 1, Len(rows) - 1), group, day)
         IN  IF Group_ID(row) = group /\ row.Day = day
             THEN WriteRow(before, row)
             ELSE before

(* {group: {day: {} for day in DAYS} for group in groups}, then filled *)
timetable_data(rows) ==
    [group \in {Group_ID(rows[i]) : i \in DOMAIN rows} |->
        [day \in DAYS |-> group_timetable(rows, group, day)]]

generate_html_timetable(schedule, cdf, rdf, unassigned) ==
    LET merged == MergeCourseInfo(schedule, cdf)
    IN  [shown      |-> TRUE,
         assigned   |-> Cardinality(merged),
         total      |-> Len(cdf),
         unassigned |-> Len(unassigned),
         body       |-> IF merged = {} /\ unassigned = <<>> THEN "nothing to assign"
                        ELSE IF merged = {} THEN "nothing assigned"
                        ELSE "tables",
         tables     |-> IF merged = {} THEN {} ELSE {Group_ID(row) : row \in merged},
         timetable_data    |-> timetable_data(sort_values(merged, rdf)),
         unassigned_report |-> unassigned_by_grade(unassigned)]

----------------------------------------------------------------------------
(* src/timetable.py, demonstrate_solution *)

(* Variant: the rows whose id is among the assigned ones *)
Unassigned_Inverted(cdf, schedule) ==
    LET assigned_course_ids == {row.Course_ID : row \in schedule}
        IsAssigned(row)     == row.Course_ID \in assigned_course_ids
    IN  SelectSeq(cdf, IsAssigned)

(* courses_df[courses_df['Course_ID'].isin(all_course_ids - assigned_course_ids)] *)
Unassigned(cdf, schedule) ==
    LET assigned_course_ids == {row.Course_ID : row \in schedule}
        NotAssigned(row)    == row.Course_ID \notin assigned_course_ids
    IN  SelectSeq(cdf, NotAssigned)

Returns(cdf, rdf, st, schedule) ==
    /\ raised' = "none"
    /\ status' = st
    /\ schedule_df' = schedule
    /\ unassigned_courses_df' = Unassigned(cdf, schedule)
    /\ report' = generate_html_timetable(schedule, cdf, rdf, Unassigned(cdf, schedule))

Raises(exception, st) ==
    /\ raised' = exception
    /\ status' = st
    /\ UNCHANGED <<schedule_df, unassigned_courses_df, report>>

demonstrate_solution ==
    /\ pc = "uploaded"
    /\ pc' = "done"
    /\ UNCHANGED <<semester, subject_in, classRoom_df>>
    /\ LET cdf == WithCourseID(courses_df)
           rdf == PrepareRooms(classRoom_df)
       IN  \/ \* if courses_df.empty or classRoom_df.empty: return ""
              /\ courses_df = <<>> \/ classRoom_df = <<>>
              /\ UNCHANGED <<courses_df, raised, status, schedule_df,
                             unassigned_courses_df, report>>
           \/ \* building the model stops at the second constraint of one name
              /\ courses_df # <<>> /\ classRoom_df # <<>>
              /\ OverlappingConstraintNames(cdf)
              /\ courses_df' = cdf
              /\ Raises("PulpError", "none")
           \/ \* the solver ends without a solution: the empty frame with columns
              /\ courses_df # <<>> /\ classRoom_df # <<>>
              /\ ~OverlappingConstraintNames(cdf)
              /\ courses_df' = cdf
              /\ \E st \in FailStatuses : Returns(cdf, rdf, st, {})
           \/ \* Optimal or Feasible: the rows of the variables at 1, sorted.
              \* With no row the frame has no column to sort by.
              /\ courses_df # <<>> /\ classRoom_df # <<>>
              /\ ~OverlappingConstraintNames(cdf)
              /\ courses_df' = cdf
              /\ \E res \in SolverResults(cdf, rdf) :
                    IF res.values = {}
                    THEN Raises("KeyError", res.status)
                    ELSE Returns(cdf, rdf, res.status, assigned_courses(cdf, res.values))

----------------------------------------------------------------------------
(* Inputs *)

CourseRows(withEnrollment) ==
    IF withEnrollment
    THEN [dept : Depts, subject : Subjects, grade : Grades,
          professor : ProfessorsIn, time : Times, enrollment : Enrollments]
    ELSE [dept : Depts, subject : Subjects, grade : Grades,
          professor : ProfessorsIn, time : Times]

(* The labels of the first row are fixed: renaming departments, subjects   *)
(* or professors changes nothing the program does.                         *)
CourseSheets ==
    UNION {{df \in [1..n -> CourseRows(e)] :
                n = 0 \/ (/\ df[1].dept = "D1"
                          /\ df[1].subject = "s1"
                          /\ df[1].professor = "p1")} :
           n \in 0..MaxCourses, e \in BOOLEAN}

(* Sheets of one course more, each of them filling a day: with a single    *)
(* room they are more than the week has room for.                          *)
FullDaySheets ==
    {[i \in 1..(MaxCourses + 1) |->
        [dept |-> "D1", subject |-> label[i][1], grade |-> 2,
         professor |-> label[i][2], time |-> T_MAX]] :
     label \in {f \in [1..(MaxCourses + 1) -> Subjects \X ProfessorsIn] :
                    f[1] = <<"s1", "p1">>}}

(* Sheets of up to MaxRooms rooms, and of as many rooms as the list of     *)
(* default capacities has.                                                 *)
RoomSheets ==
    {[i \in 1..n |-> IF withCapacity
                     THEN [number |-> RoomNumber(i), Capacity |-> RoomCapacity(i)]
                     ELSE [number |-> RoomNumber(i)]] :
        n \in (0..MaxRooms) \cup {Len(capacities)}, withCapacity \in BOOLEAN}

NoReport == [shown |-> FALSE]

Init ==
    /\ pc = "start"
    /\ semester \in Semesters
    /\ subject_in \in CourseSheets \cup FullDaySheets
    /\ classRoom_df \in RoomSheets
    /\ Len(subject_in) > MaxCourses => Len(classRoom_df) = 1  \* the long course sheet
                                                            \* with a single room
    /\ Len(classRoom_df) > MaxRooms => Len(subject_in) <= 1  \* the long room sheet
                                                            \* with one course at most
    /\ courses_df = <<>>
    /\ raised = "none"
    /\ status = "none"
    /\ schedule_df = {}
    /\ unassigned_courses_df = <<>>
    /\ report = NoReport

Next == Upload \/ demonstrate_solution

Spec == Init /\ [][Next]_vars

----------------------------------------------------------------------------
(* Properties *)

(* demonstrate_solution returned the page *)
Done     == pc = "done" /\ raised = "none" /\ report.shown
(* demonstrate_solution got as far as the Course_ID column *)
Identified == pc = "done" /\ (status # "none" \/ raised # "none")
Solved   == Done /\ status \in {"Optimal", "Feasible"}

(* The course row a placement is about, and the hours the placement covers *)
CourseOf(p) == original_row(courses_df, p.Course_ID)
Hours(p)    == p.Start_Time .. (p.Start_Time + CourseOf(p).time - 1)
Disjoint(p, q) == Hours(p) \cap Hours(q) = {}
Placements(c) == {p \in schedule_df : p.Course_ID = c}

(* C1: in an Optimal or Feasible result, two distinct placements in the    *)
(* same room on the same day cover disjoint hours.                         *)
C1_RoomIntervalsDisjoint ==
    Solved => \A p, q \in schedule_df :
                (p # q /\ p.Classroom_ID = q.Classroom_ID /\ p.Day = q.Day)
                    => Disjoint(p, q)

(* Two placements back to back in one room on one day *)
C1_Witness ==
    /\ Solved
    /\ \E p, q \in schedule_df :
          /\ p.Classroom_ID = q.Classroom_ID /\ p.Day = q.Day
          /\ q.Start_Time = p.Start_Time + CourseOf(p).time

(* C2: in an Optimal or Feasible result, two distinct placements of        *)
(* courses of one professor on the same day cover disjoint hours, in       *)
(* whatever rooms.                                                         *)
C2_ProfessorIntervalsDisjoint ==
    Solved => \A p, q \in schedule_df :
                (p # q /\ CourseOf(p).professor = CourseOf(q).professor /\ p.Day = q.Day)
                    => Disjoint(p, q)

(* One professor's two courses on one day in two rooms *)
C2_Witness ==
    /\ Solved
    /\ \E p, q \in schedule_df :
          /\ CourseOf(p).professor = CourseOf(q).professor
          /\ p.Day = q.Day
          /\ p.Classroom_ID # q.Classroom_ID

(* The student group of a placement: (department, grade, section) *)
GroupOf(p) == <<CourseOf(p).dept, CourseOf(p).grade, CourseOf(p).class>>

(* C3: in an Optimal or Feasible result, two distinct placements of        *)
(* courses of one student group on the same day cover disjoint hours.      *)
C3_GroupIntervalsDisjoint ==
    Solved => \A p, q \in schedule_df :
                (p # q /\ GroupOf(p) = GroupOf(q) /\ p.Day = q.Day)
                    => Disjoint(p, q)

(* C4 as stated: in an Optimal result every input course has exactly one   *)
(* placement.                                                              *)
C4_ExactlyOnePlacement ==
    (Done /\ status = "Optimal")
        => \A i \in DOMAIN courses_df :
              Cardinality(Placements(courses_df[i].Course_ID)) = 1

(* C4 as amended: in an Optimal result no input course has two placements  *)
(* (a course may have none).                                               *)
C4_AtMostOnePlacement ==
    (Done /\ status = "Optimal")
        => \A i \in DOMAIN courses_df :
              Cardinality(Placements(courses_df[i].Course_ID)) <= 1

(* An Optimal result that places one course and leaves another out *)
C4_Witness ==
    /\ Done /\ status = "Optimal"
    /\ \E i, j \in DOMAIN courses_df :
          /\ Cardinality(Placements(courses_df[i].Course_ID)) = 1
          /\ Placements(courses_df[j].Course_ID) = {}

(* The room row of a placement, with the capacity the program works with *)
RoomOf(p) ==
    LET rdf == PrepareRooms(classRoom_df)
    IN  rdf[CHOOSE i \in DOMAIN rdf : rdf[i].Room_ID = p.Classroom_ID]

(* C5: every returned placement is in a room whose capacity is at least    *)
(* the course's enrollment, defaults included.                             *)
C5_CapacityRespected ==
    pc = "done" => \A p \in schedule_df :
                      course_enrollment(courses_df, p.Course_ID) <= RoomOf(p).Capacity

(* Neither capacity on the sheet: a course of 50 from the sheet placed,    *)
(* among rooms of the default capacities, some of which seat only 45.      *)
C5_Witness ==
    /\ Done
    /\ ~HasColumn(classRoom_df, "Capacity")
    /\ HasColumn(courses_df, "enrollment")
    /\ \E p \in schedule_df :
          \E i \in DOMAIN classRoom_df :
              PrepareRooms(classRoom_df)[i].Capacity
                  < course_enrollment(courses_df, p.Course_ID)

(* C6: every returned placement starts at slot 1 or later and ends by      *)
(* T_MAX, so a course longer than the day is never placed.                 *)
C6_EndsWithinDay ==
    Identified =>
        /\ \A p \in schedule_df :
              /\ p.Start_Time >= 1
              /\ p.Start_Time + CourseOf(p).time - 1 <= T_MAX
        /\ \A i \in DOMAIN courses_df :
              courses_df[i].time > T_MAX => Placements(courses_df[i].Course_ID) = {}

(* A result where one course is longer than the day and another ends in    *)
(* the last slot.                                                          *)
C6_Witness ==
    /\ Done
    /\ \E i \in DOMAIN courses_df : courses_df[i].time > T_MAX
    /\ \E p \in schedule_df : p.Start_Time + CourseOf(p).time - 1 = T_MAX

(* C7: Upload doubles the duration of exactly the grade-3 courses when     *)
(* semester = 2 and changes no other duration.                             *)
C7_SemesterAdjustment ==
    pc # "start" =>
        /\ Len(courses_df) = Len(subject_in)
        /\ \A i \in DOMAIN subject_in :
              courses_df[i].time =
                  IF semester = 2 /\ subject_in[i].grade = 3
                  THEN 2 * subject_in[i].time
                  ELSE subject_in[i].time

(* Semester 2 with a grade-3 row (doubled) and another row (kept) *)
C7_Witness ==
    /\ pc = "uploaded"
    /\ semester = 2
    /\ \E i, j \in DOMAIN subject_in :
          /\ subject_in[i].grade = 3 /\ courses_df[i].time = 2 * subject_in[i].time
          /\ subject_in[j].grade # 3 /\ courses_df[j].time = subject_in[j].time

(* C8: no two rows end up with the same Course_ID.                         *)
C8_CourseIdUnique ==
    Identified => \A i, j \in DOMAIN courses_df :
                    i # j => courses_df[i].Course_ID # courses_df[j].Course_ID

(* C9: when the status is neither Optimal nor Feasible, no placement is    *)
(* returned, the page has no timetable and its unassigned report lists     *)
(* every input course.                                                     *)
C9_FailureReport ==
    (Done /\ status \notin {"Optimal", "Feasible"}) =>
        /\ schedule_df = {}
        /\ report.body # "tables" /\ report.tables = {}
        /\ unassigned_courses_df = courses_df
        /\ \A g \in Grades :
              LET InGrade(row) == row.grade = g
                  rows == SelectSeq(courses_df, InGrade)
              IN  rows # <<>> =>
                    /\ g \in DOMAIN report.unassigned_report
                    /\ report.unassigned_report[g] = [i \in DOMAIN rows |-> rows[i].subject]

(* A failed solve of a sheet of two courses *)
C9_Witness ==
    /\ Done /\ status \in FailStatuses
    /\ Len(courses_df) = 2

GroupIdOf(p) ==
    Group_ID(p @@ [dept |-> CourseOf(p).dept, grade |-> CourseOf(p).grade])

(* Reading the grid back: every dictionary of the grid gives a course id   *)
(* (name_division), a room, and the day and hour it stands at.             *)
ParsedBack ==
    LET grid == report.timetable_data
    IN  UNION {UNION {{[Course_ID    |-> grid[g][d][t].name \o "_" \o grid[g][d][t].division,
                        Classroom_ID |-> grid[g][d][t].room_id,
                        Day          |-> d,
                        Start_Time   |-> t] :
                       t \in {u \in DOMAIN grid[g][d] : grid[g][d][u] # occupied}} :
                      d \in DOMAIN grid[g]} :
               g \in DOMAIN grid}

PlacementKeys(rows) ==
    {[Course_ID |-> p.Course_ID, Classroom_ID |-> p.Classroom_ID,
      Day |-> p.Day, Start_Time |-> p.Start_Time] : p \in rows}

(* The cell of the grid at the group, day and first hour of p is p's own *)
OwnStartCell(p) ==
    LET slots == report.timetable_data[GroupIdOf(p)][p.Day]
    IN  /\ p.Start_Time \in DOMAIN slots
        /\ slots[p.Start_Time] # occupied
        /\ slots[p.Start_Time].name \o "_" \o slots[p.Start_Time].division = p.Course_ID
        /\ slots[p.Start_Time].room_id = p.Classroom_ID
        /\ slots[p.Start_Time].duration = CourseOf(p).time

(* C11: rendering is lossless: for every placement set solve_optimal can   *)
(* return, the grid holds at (group, day, start hour) of every placement   *)
(* a starting cell with that placement's course, room and duration, not    *)
(* another placement's cell nor an 'occupied' marker, so that reading the  *)
(* grid back gives every (course_id, room, day, start_hour).               *)
C11_RenderingLossless ==
    Solved => /\ \A p \in schedule_df : OwnStartCell(p)
              /\ ParsedBack = PlacementKeys(schedule_df)

(* The same for the placement sets in which the placements of one student  *)
(* group on one day cover disjoint hours.                                  *)
C11_LosslessForDisjointGroups ==
    (Solved /\ \A p, q \in schedule_df :
                    (p # q /\ GroupOf(p) = GroupOf(q) /\ p.Day = q.Day) => Disjoint(p, q))
        => /\ \A p \in schedule_df : OwnStartCell(p)
           /\ ParsedBack = PlacementKeys(schedule_df)

(* Two placements of one group on one day, rendered without loss *)
C11_DisjointGroupsRendered ==
    /\ Solved
    /\ \E p, q \in schedule_df : p # q /\ GroupOf(p) = GroupOf(q) /\ p.Day = q.Day
    /\ ParsedBack = PlacementKeys(schedule_df)

(* Assignments, stated on the sheets: a place for the course of row i is a *)
(* room row, a day and a first hour such that the course ends by T_MAX and *)
(* its enrollment is within the room's capacity, defaults included.        *)
Places(i) ==
    LET rdf == PrepareRooms(classRoom_df)
    IN  {s \in [r : DOMAIN rdf, d : DAYS, t : TIME_SLOTS] :
            /\ s.t + courses_df[i].time - 1 <= T_MAX
            /\ course_enrollment(courses_df, courses_df[i].Course_ID) <= rdf[s.r].Capacity}

(* Course i at s and course j at u share no hour of a room, and none of a  *)
(* professor.                                                              *)
Compatible(i, s, j, u) ==
    LET apart == \/ s.d # u.d
                 \/ s.t + courses_df[i].time - 1 < u.t
                 \/ u.t + courses_df[j].time - 1 < s.t
    IN  /\ s.r = u.r => apart
        /\ courses_df[i].professor = courses_df[j].professor => apart

(* Each course of todo can be given a place compatible with the places of  *)
(* chosen, a set of pairs <<course, place>>, and with one another.         *)
RECURSIVE CanPlace(_, _)
CanPlace(todo, chosen) ==
    \/ todo = {}
    \/ LET i == CHOOSE i \in todo : TRUE
       IN  \E s \in Places(i) :
              /\ \A pair \in chosen : Compatible(i, s, pair[1], pair[2])
              /\ CanPlace(todo \ {i}, chosen \cup {<<i, s>>})

(* C12: when solve_optimal reports Optimal, the returned placement set has *)
(* maximum size: no assignment of places to more courses than it places    *)
(* satisfies the at-most-once, end-of-day, capacity, room-conflict and     *)
(* professor-conflict constraints.                                         *)
C12_OptimalIsMaximum ==
    (Done /\ status = "Optimal") =>
        \A C \in SUBSET DOMAIN courses_df :
            Cardinality(C) > Cardinality({p.Course_ID : p \in schedule_df})
                => ~CanPlace(C, {})

(* An Optimal result that leaves out a course which alone has a place:     *)
(* the courses compete for the rooms' or the professors' hours.            *)
C12_Witness ==
    /\ Done /\ status = "Optimal"
    /\ \E j \in DOMAIN courses_df :
          /\ Placements(courses_df[j].Course_ID) = {}
          /\ CanPlace({j}, {})


============================================================================
